---- MODULE Spec2Model ----
(***************************************************************************)
(* A model of the Ember model-invocation layer:                            *)
(*   - EnsembleOperator.forward (operator/core/ensemble.py), and           *)
(*   - HuggingFaceModel.forward under its tenacity retry decorator         *)
(*     (model/providers/huggingface/huggingface_provider.py).              *)
(*                                                                         *)
(* Python values that may be None are modelled as tuples of length <= 1:   *)
(* None is <<>> and a value v is <<v>>.  A text is the sequence of its     *)
(* whitespace-delimited words, so the empty string is <<>> and             *)
(* len(text.split()) is Len(text).                                         *)
(***************************************************************************)
EXTENDS Integers, Sequences, FiniteSets, TLC

None == <<>>
Some(v) == <<v>>
IsNone(x) == x = <<>>
Val(x) == x[1]

(***************************************************************************)
(* Bounds of the model.                                                    *)
(***************************************************************************)
MaxAdapters == 3
\* The forward calls made on one HuggingFaceModel instance.
MaxCalls == 2

\* The identities of the LMModule objects an ensemble may be built from.
AdapterIds == {"lm_a", "lm_b"}
\* The texts an LMModule may return.
LMTexts == {<<"A">>, <<"B">>}
\* The queries of the EnsembleOperatorInputs.
Queries == {<<"q1">>, <<"q2">>}
\* The forward calls of one EnsembleOperator that may overlap in time.
EnsCalls == {"c1", "c2"}

RECURSIVE SeqsUpTo(_, _)
SeqsUpTo(S, n) ==
  IF n = 0 THEN {<<>>}
  ELSE LET shorter == SeqsUpTo(S, n - 1)
       IN  shorter \cup {Append(s, x) : s \in {t \in shorter : Len(t) = n - 1}, x \in S}

VARIABLES
  lm_modules,   \* EnsembleOperator.lm_modules: the adapters, in construction order
  ens,          \* per forward call of the operator: its frame (locals and position)
  model_info,   \* HuggingFaceModel.model_info
  hfm,          \* the HuggingFaceModel instance: tokenizer, _local_model, client
  hf,           \* per thread calling HuggingFaceModel.forward: its frame
  calls,        \* the number of forward calls started on the instance
  calc          \* calculate_usage called on its own: its input and its results

ens_vars == <<lm_modules, ens>>
hf_vars == <<model_info, hfm, hf, calls>>
usage_vars == <<calc>>
vars == <<lm_modules, ens, model_info, hfm, hf, calls, calc>>

(***************************************************************************)
(* EnsembleOperator                                                        *)
(***************************************************************************)

\* Specification.render_prompt(inputs=inputs): a pure function of the inputs.
RenderPrompt(inputs) == <<"rendered">> \o inputs.query

EnsIdleFrame ==
  [pc |-> "idle", inputs |-> [query |-> <<>>], rendered_prompt |-> None,
   responses |-> <<>>, in_flight |-> {}, renders |-> 0,
   lm_log |-> <<>>, output |-> None, raised |-> None]

\* A faulty variant of Collect: the value is put in front.
CollectBug(responses, v) == <<v>> \o responses
\* The list the comprehension builds: each returned value is appended.
Collect(responses, v) == Append(responses, v)

\* The position of lm_modules the comprehension evaluates next.
NextPosition(f) == Len(f.responses) + 1

\* forward is entered and line 116 renders the prompt.
EnsForward(c, q) ==
  /\ ens[c].pc = "idle"
  /\ ens' = [ens EXCEPT ![c] =
       [@ EXCEPT !.pc = "dispatch",
                 !.inputs = [query |-> q],
                 !.rendered_prompt = Some(RenderPrompt([query |-> q])),
                 !.renders = @ + 1]]
  /\ UNCHANGED <<lm_modules, hf_vars, usage_vars>>

\* A faulty variant of LMPrompt: the rendered prompt is kept on the operator,
\* where the forward call c1 overwrites it, instead of in a local of each call.
LMPromptShared(f) ==
  IF IsNone(ens["c1"].rendered_prompt) THEN Val(f.rendered_prompt)
                                       ELSE Val(ens["c1"].rendered_prompt)
\* A faulty variant of LMPrompt: the adapter is given the query as it came.
LMPromptUnrendered(f) == f.inputs.query
\* Line 117: the argument of lm(prompt=rendered_prompt).
LMPrompt(f) == Val(f.rendered_prompt)

\* Line 117, one iteration of the comprehension: lm(prompt=rendered_prompt) is
\* entered for position i.  The comprehension is a sequential loop: position
\* i is entered only when every earlier position has returned.
EnsInvokeLM(c, i) ==
  /\ ens[c].pc = "dispatch"
  /\ ens[c].in_flight = {}
  /\ i = NextPosition(ens[c])
  /\ i <= Len(lm_modules)
  /\ ens' = [ens EXCEPT ![c] =
       [@ EXCEPT !.pc = "in_call", !.in_flight = {i}]]
  /\ UNCHANGED <<lm_modules, hf_vars, usage_vars>>

\* The call of position i returns the text v.
EnsLMReturn(c, i, v) ==
  /\ ens[c].pc = "in_call"
  /\ i \in ens[c].in_flight
  /\ ens' = [ens EXCEPT ![c] =
       [@ EXCEPT !.pc = "dispatch",
                 !.in_flight = @ \ {i},
                 !.responses = Collect(@, v),
                 !.lm_log = Append(@, [pos |-> i, lm |-> lm_modules[i],
                                        prompt |-> LMPrompt(ens[c]),
                                        out |-> Some(v)])]]
  /\ UNCHANGED <<lm_modules, hf_vars, usage_vars>>

\* A faulty variant of Propagate: the exception is swallowed and the loop goes on.
PropagateBug(f, i) == [f EXCEPT !.pc = "dispatch", !.in_flight = @ \ {i}]
\* What forward does with an exception of an adapter call: nothing catches it.
Propagate(f, i) ==
  [f EXCEPT !.pc = "failed", !.in_flight = @ \ {i},
            !.raised = Some([pos |-> i, lm |-> lm_modules[i]])]

\* The call of position i raises: the exception leaves the comprehension and forward.
EnsLMRaise(c, i) ==
  /\ ens[c].pc = "in_call"
  /\ i \in ens[c].in_flight
  /\ ens' = [ens EXCEPT ![c] =
       Propagate([@ EXCEPT !.lm_log = Append(@, [pos |-> i, lm |-> lm_modules[i],
                                        prompt |-> LMPrompt(ens[c]),
                                        out |-> None])], i)]
  /\ UNCHANGED <<lm_modules, hf_vars, usage_vars>>

\* Line 118: return {"responses": responses}
EnsReturn(c) ==
  /\ ens[c].pc = "dispatch"
  /\ NextPosition(ens[c]) > Len(lm_modules)
  /\ ens' = [ens EXCEPT ![c] =
       [@ EXCEPT !.pc = "done", !.output = Some([responses |-> ens[c].responses])]]
  /\ UNCHANGED <<lm_modules, hf_vars, usage_vars>>

EnsNext ==
  \E c \in EnsCalls :
    \/ \E q \in Queries : EnsForward(c, q)
    \/ \E i \in 1..MaxAdapters : EnsInvokeLM(c, i)
    \/ \E i \in 1..MaxAdapters, v \in LMTexts : EnsLMReturn(c, i, v)
    \/ \E i \in 1..MaxAdapters : EnsLMRaise(c, i)
    \/ EnsReturn(c)

(***************************************************************************)
(* HuggingFaceModel: values                                                *)
(***************************************************************************)

\* A Python dict over the keyword names the provider handles: the keys it
\* holds, and the value of each (None for a key it does not hold).
Keys == {"prompt", "max_new_tokens", "temperature", "timeout",
         "use_local_model", "top_k"}
EmptyDict == [keys |-> {}, val |-> [k \in Keys |-> None]]
Dict(ks, v) == [keys |-> ks, val |-> [k \in Keys |-> IF k \in ks THEN v[k] ELSE None]]
\* d.pop(k, default): the value popped, and the dict left.
PopValue(d, k, default) == IF k \in d.keys THEN d.val[k] ELSE default
PopRest(d, k) == Dict(d.keys \ {k}, d.val)

\* The threads that call forward on the one instance.
Threads == {"t1", "t2"}

\* The requests: ChatRequest fields the provider reads.
Prompts == {None, Some(<<>>), Some(<<"hi", "there">>)}
MaxTokensValues == {None, Some(-1), Some(0), Some(16)}
TimeoutValues == {None, Some(5)}
ProviderParamsValues ==
  { EmptyDict,
    Dict({"use_local_model"}, [k \in Keys |-> Some(TRUE)]),
    Dict({"use_local_model", "top_k", "max_new_tokens"}, [k \in Keys |-> None]),
    Dict({"top_k", "timeout"}, [k \in Keys |-> Some(7)]),
    Dict({"max_new_tokens"}, [k \in Keys |-> Some(0)]) }
Requests ==
  [prompt : Prompts, max_tokens : MaxTokensValues, timeout : TimeoutValues,
   temperature : {Some(7)}, provider_params : ProviderParamsValues]

\* The texts a backend may generate, the empty text among them.
GeneratedTexts == {<<>>, <<"fine", "then">>}

\* Exceptions.  `at` is the attempt in which the exception was created, which
\* tells the exception objects of different attempts apart; `response` is
\* the status of the response an HTTPError carries (None: no response);
\* `cause` is <<>> or holds the exception this one was raised from.
NoExc == [type |-> "None", response |-> None, at |-> 0, cause |-> <<>>]
Exc(type, response, at, cause) ==
  [type |-> type, response |-> response, at |-> at, cause |-> cause]

\* What the remote backend call may raise: HTTP errors (client range, both
\* ends of the server range, and one carrying no response), a network
\* failure, and any other error.
RemoteFailures ==
  { [type |-> "HTTPError", response |-> Some(404)],
    [type |-> "HTTPError", response |-> Some(500)],
    [type |-> "HTTPError", response |-> Some(599)],
    [type |-> "HTTPError", response |-> None],
    [type |-> "ConnectionError", response |-> None],
    [type |-> "ValueError", response |-> None] }
\* What the local pipeline may raise.
LocalFailures == { [type |-> "RuntimeError", response |-> None] }

IsHTTP5xx(e) ==
  e.type = "HTTPError" /\ ~IsNone(e.response)
    /\ 500 <= Val(e.response) /\ Val(e.response) < 600
IsNetworkFailure(e) == e.type = "ConnectionError"
IsTransient(e) == IsHTTP5xx(e) \/ IsNetworkFailure(e)

(***************************************************************************)
(* HuggingFaceChatParameters                                               *)
(***************************************************************************)

DefaultMaxTokens == 512
DefaultTimeout == 30
\* Temperatures are in tenths: the 0.7 of hf_kwargs.pop("temperature", 0.7).
DefaultTemperature == 7

\* field_validator("max_tokens", mode="before")
EnforceDefaultIfNone(value) == IF IsNone(value) THEN Some(DefaultMaxTokens) ELSE value

\* A faulty variant of EnsurePositiveRaises: every value is accepted.
EnsurePositiveNeverRaises(value) == FALSE
\* A faulty variant of EnsurePositiveRaises: zero is accepted.
EnsurePositiveRaisesBelowZero(value) == Val(value) < 0
\* field_validator("max_tokens"): whether it raises ValidationError
EnsurePositiveRaises(value) == Val(value) <= 0

\* BaseChatParameters.build_prompt for a request without context.
BuildPrompt(params) == Val(params.prompt)

\* HuggingFaceChatParameters.to_huggingface_kwargs
ToHuggingfaceKwargs(params) ==
  Dict({"prompt", "max_new_tokens", "temperature", "timeout"},
       [k \in Keys |->
          CASE k = "prompt" -> Some(BuildPrompt(params))
            [] k = "max_new_tokens" -> params.max_tokens
            [] k = "temperature" -> params.temperature
            [] k = "timeout" -> params.timeout
            [] OTHER -> None])

\* A faulty variant of MergeProviderParams: unset values are merged too.
MergeProviderParamsUnfiltered(hf_kwargs, provider_params) ==
  Dict(hf_kwargs.keys \cup provider_params.keys,
       [k \in Keys |-> IF k \in provider_params.keys THEN provider_params.val[k]
                                                     ELSE hf_kwargs.val[k]])
\* hf_kwargs.update({k: v for k, v in provider_params.items() if v is not None})
MergeProviderParams(hf_kwargs, provider_params) ==
  LET set == {k \in provider_params.keys : ~IsNone(provider_params.val[k])}
  IN  Dict(hf_kwargs.keys \cup set,
           [k \in Keys |-> IF k \in set THEN provider_params.val[k]
                                        ELSE hf_kwargs.val[k]])

\* A faulty variant of PromptIsEmpty: only a missing prompt is refused.
PromptMissingOnly(prompt) == IsNone(prompt)
\* `if not request.prompt`: a missing or an empty prompt.
PromptIsEmpty(prompt) == IsNone(prompt) \/ Val(prompt) = <<>>

(***************************************************************************)
(* The retry decorator of forward                                          *)
(***************************************************************************)

MaxAttempts == 3
WaitMin == 1
WaitMax == 10

Min2(a, b) == IF a < b THEN a ELSE b
Max2(a, b) == IF a > b THEN a ELSE b

\* wait_exponential(min=1, max=10): the wait after attempt n
WaitExponential(n) == Max2(WaitMin, Min2(2 ^ (n - 1), WaitMax))

\* A faulty variant of StopAfterAttempt: no attempt is repeated.
StopAfterFirstAttempt(n) == n >= 1
\* stop_after_attempt(3)
StopAfterAttempt(n) == n >= MaxAttempts

\* A faulty variant of Reraise (reraise=False): a RetryError is raised instead.
ReraiseWrapped(e) == Exc("RetryError", None, e.at, <<e>>)
\* reraise=True: on stopping, the last attempt's exception itself is raised.
Reraise(e) == e

(***************************************************************************)
(* HuggingFaceModel: the instance                                          *)
(***************************************************************************)

\* The identifier _normalize_huggingface_model_name falls back to.
DefaultModel == [prefixed |-> FALSE, id |-> "mistralai/Mistral-7B-Instruct-v0.2"]

\* A faulty variant of NormalizeHuggingfaceModelName: the prefix is kept.
NormalizeKeepingPrefix(raw_name, found) == IF found THEN raw_name ELSE DefaultModel
\* _normalize_huggingface_model_name: a leading "huggingface:" is removed, and
\* the name is returned if HfApi().model_info finds it, the default if not.
NormalizeHuggingfaceModelName(raw_name, found) ==
  LET stripped == [prefixed |-> FALSE, id |-> raw_name.id]
  IN  IF found THEN stripped ELSE DefaultModel

\* A faulty variant of ApiKeyMissing: an empty key passes.
ApiKeyMissingOnlyNone(api_key) == IsNone(api_key)
\* create_client, line 357: `if not api_key`, for the Optional[str] that
\* get_api_key() yields.
ApiKeyMissing(api_key) == IsNone(api_key) \/ Val(api_key) = ""

\* create_client, line 364: InferenceClient(token=api_key); no timeout is
\* passed, so the client is built with none.
CreateClient(api_key) == [token |-> api_key, timeout |-> None]

\* model_info.cost, in millionths of a dollar per thousand tokens.
CostSchedule == [input_cost_per_thousand |-> 1000, output_cost_per_thousand |-> 2000]

\* What model_info.get_api_key() may yield: no key, an empty one, a key.
ApiKeys == {None, Some(""), Some("hf_key")}

ModelInfos ==
  { [name |-> [prefixed |-> p, id |-> "acme/model"], api_key |-> k,
     cost |-> CostSchedule] : p \in BOOLEAN, k \in ApiKeys }

\* The instance while __init__ has not yet built its client.
NewInstance ==
  [state |-> "new", client |-> None, create_frame |-> None, create_exc |-> NoExc,
   tokenizer |-> None, local_model |-> None, model_loads |-> 0]

NoRequest ==
  [prompt |-> None, max_tokens |-> None, timeout |-> None,
   temperature |-> Some(7), provider_params |-> EmptyDict]

\* The frame of one forward call with its retry state.  From body_runs on,
\* the fields are history: what the call has done so far.
HFIdleFrame ==
  [pc |-> "idle", request |-> NoRequest, attempt |-> 0,
   hf_parameters |-> None, last_count |-> None, last_lookup |-> None, prompt_count |-> None,
   attempt_calls |-> [local |-> 0, remote |-> 0, loads |-> 0],
   hf_kwargs |-> EmptyDict, model_id |-> DefaultModel, use_local |-> FALSE,
   prompt |-> <<>>, generated_text |-> <<>>, prompt_tokens |-> 0,
   try_exc |-> NoExc, attempt_exc |-> NoExc, caller_exc |-> NoExc,
   attempt_result |-> None, result |-> None,
   body_runs |-> 0, prompt_checks |-> 0, normalizations |-> 0, merges |-> 0,
   lookups |-> 0, loads |-> 0, local_calls |-> 0, remote_calls |-> 0,
   waits |-> <<>>, last_remote |-> None, last_local |-> None,
   transient_attempts |-> 0]

\* The locals of the body, as they are when an attempt begins.
FreshLocals(f) ==
  [f EXCEPT !.hf_parameters = None, !.last_count = None, !.last_lookup = None,
            !.prompt_count = None,
            !.attempt_calls = [local |-> 0, remote |-> 0, loads |-> 0],
            !.hf_kwargs = EmptyDict, !.model_id = DefaultModel,
            !.use_local = FALSE, !.prompt = <<>>, !.generated_text = <<>>,
            !.prompt_tokens = 0]

\* A faulty variant of HandleException: only a 5xx HTTPError is re-raised.
HandleExceptionWrapping4xx(e, at) ==
  IF IsHTTP5xx(e) THEN e ELSE Exc("ProviderAPIError", None, at, <<e>>)
\* The except clauses of forward (lines 551-561), for an exception e raised in
\* the try block of attempt `at`: an HTTPError is re-raised after its status
\* was read (reading the status of an HTTPError without response raises
\* AttributeError); any other exception is wrapped in a ProviderAPIError.
HandleException(e, at) ==
  IF e.type = "HTTPError"
  THEN IF IsNone(e.response)
       THEN Exc("AttributeError", None, at, <<>>)
       ELSE e
  ELSE Exc("ProviderAPIError", None, at, <<e>>)

\* The retry controller, when the body of attempt f.attempt has raised e
\* (try_e: the exception raised inside the try block, NoExc if e was raised
\* before it): after the last attempt the exception is raised to the caller,
\* otherwise the controller sleeps.
AfterRaise(f, try_e, e) ==
  LET g == [f EXCEPT !.try_exc = try_e, !.attempt_exc = e,
                     !.transient_attempts = IF IsTransient(try_e) THEN @ + 1 ELSE @]
  IN  IF StopAfterAttempt(f.attempt)
      THEN [g EXCEPT !.pc = "raised", !.caller_exc = Reraise(e)]
      ELSE [g EXCEPT !.pc = "backoff",
                     !.waits = Append(@, WaitExponential(f.attempt))]

\* An exception raised inside the try block passes the except clauses first.
RaiseInTry(f, e) == AfterRaise(f, e, HandleException(e, f.attempt))

\* create_client, run by the construction of the instance, whose client it
\* becomes.  Without a key it raises ModelProviderError and the construction
\* fails; with one, the client is built and the model name is looked up for
\* the log only (the catalog lookup finds the name or fails).
HFCreateClient(found) ==
  /\ hfm.state = "new"
  /\ LET api_key == model_info.api_key
     IN  IF ApiKeyMissing(api_key)
         THEN hfm' = [hfm EXCEPT !.state = "failed",
                                 !.create_exc = Exc("ModelProviderError", None, 0, <<>>)]
         ELSE hfm' = [hfm EXCEPT
                !.state = "created",
                !.client = Some(CreateClient(Val(api_key))),
                !.create_frame = Some(
                   [found |-> found,
                    model_id |-> NormalizeHuggingfaceModelName(model_info.name, found)])]
  /\ UNCHANGED <<model_info, hf, calls, ens_vars, usage_vars>>

\* __init__, lines 308-309, after create_client has returned (its locals are
\* gone): self.tokenizer = None; self._local_model = None.
HFInitDone ==
  /\ hfm.state = "created"
  /\ hfm' = [hfm EXCEPT !.state = "ready", !.create_frame = None,
                        !.tokenizer = None, !.local_model = None]
  /\ UNCHANGED <<model_info, hf, calls, ens_vars, usage_vars>>

\* A caller calls forward(request) on thread t of a constructed instance.
HFCall(t, req) ==
  /\ hfm.state = "ready"
  /\ hf[t].pc \in {"idle", "returned", "raised"}
  /\ calls < MaxCalls
  /\ calls' = calls + 1
  /\ hf' = [hf EXCEPT ![t] =
       [HFIdleFrame EXCEPT !.pc = "enter", !.request = req, !.attempt = 1]]
  /\ UNCHANGED <<model_info, hfm, ens_vars, usage_vars>>

\* Lines 444-471 of an attempt: the prompt check, the construction of
\* HuggingFaceChatParameters (its validators), to_huggingface_kwargs and the
\* merge of provider_params.
HFPrepare(t) ==
  /\ hf[t].pc = "enter"
  /\ LET f == [hf[t] EXCEPT !.body_runs = @ + 1, !.prompt_checks = @ + 1]
         req == f.request
     IN  IF PromptIsEmpty(req.prompt)
         THEN hf' = [hf EXCEPT ![t] =
                AfterRaise(f, NoExc, Exc("InvalidPromptError", None, f.attempt, <<>>))]
         ELSE LET g == [f EXCEPT !.normalizations = @ + 1]
                  max_tokens == EnforceDefaultIfNone(req.max_tokens)
              IN  IF EnsurePositiveRaises(max_tokens)
                  THEN hf' = [hf EXCEPT ![t] =
                         AfterRaise(g, NoExc, Exc("ValidationError", None, g.attempt, <<>>))]
                  ELSE LET params == [prompt |-> req.prompt, max_tokens |-> max_tokens,
                                      temperature |-> req.temperature,
                                      timeout |-> req.timeout]
                       IN  hf' = [hf EXCEPT ![t] =
                             [g EXCEPT !.pc = "resolve",
                                       !.merges = @ + 1,
                                       !.hf_parameters = Some(params),
                                       !.hf_kwargs = MergeProviderParams(
                                          ToHuggingfaceKwargs(params),
                                          req.provider_params)]]
  /\ UNCHANGED <<model_info, hfm, calls, ens_vars, usage_vars>>

\* A faulty variant of DispatchPath: the remote client is called in any case.
DispatchAlwaysRemote(use_local) == "remote"
\* Lines 480 and 518: `if use_local:` takes the local path, `else:` the remote
\* one.
DispatchPath(use_local) == IF use_local THEN "check_local" ELSE "remote"

\* Lines 474-477: the model name is resolved (the catalog lookup finds the
\* name or fails) and use_local_model is popped.
HFResolveModel(t, found) ==
  /\ hf[t].pc = "resolve"
  /\ LET f == hf[t]
         use_local == Val(PopValue(f.hf_kwargs, "use_local_model", Some(FALSE)))
         model_id == NormalizeHuggingfaceModelName(model_info.name, found)
     IN  hf' = [hf EXCEPT ![t] =
           [f EXCEPT !.pc = DispatchPath(use_local),
                     !.lookups = @ + 1,
                     !.last_lookup = Some([found |-> found, model_id |-> model_id]),
                     !.model_id = model_id,
                     !.use_local = use_local,
                     !.hf_kwargs = PopRest(@, "use_local_model")]]
  /\ UNCHANGED <<model_info, hfm, calls, ens_vars, usage_vars>>

\* A faulty variant of LocalModelMissing: the cache is never consulted.
LocalModelMissingAlways(local_model) == TRUE
\* Line 482: `self._local_model is None`.
LocalModelMissing(local_model) == IsNone(local_model)

\* Line 482: `if self._local_model is None`.
HFCheckLocalModel(t) ==
  /\ hf[t].pc = "check_local"
  /\ hf' = [hf EXCEPT ![t].pc = IF LocalModelMissing(hfm.local_model) THEN "load"
                                                                     ELSE "generate"]
  /\ UNCHANGED <<model_info, hfm, calls, ens_vars, usage_vars>>

LoadOutcomes == {"ok", "tokenizer_fails", "model_fails"}

\* Line 483: self._local_model = self._load_local_model(model_id).  The
\* tokenizer is stored before the model is loaded; a failure of either load
\* leaves _load_local_model as a ProviderAPIError, inside the try block.
HFLoadLocalModel(t, outcome) ==
  /\ hf[t].pc = "load"
  /\ LET f == [hf[t] EXCEPT !.loads = @ + 1, !.attempt_calls.loads = @ + 1]
         stored == [hfm EXCEPT !.tokenizer = Some(f.model_id)]
         cause == Exc("OSError", None, f.attempt, <<>>)
         raised == Exc("ProviderAPIError", None, f.attempt, <<cause>>)
     IN  CASE outcome = "ok" ->
                /\ hfm' = [stored EXCEPT
                            !.local_model = Some([model_id |-> f.model_id,
                                                  serial |-> hfm.model_loads + 1]),
                            !.model_loads = @ + 1]
                /\ hf' = [hf EXCEPT ![t] = [f EXCEPT !.pc = "generate"]]
           [] outcome = "tokenizer_fails" ->
                /\ hfm' = hfm
                /\ hf' = [hf EXCEPT ![t] = RaiseInTry(f, raised)]
           [] outcome = "model_fails" ->
                /\ hfm' = stored
                /\ hf' = [hf EXCEPT ![t] = RaiseInTry(f, raised)]
  /\ UNCHANGED <<model_info, calls, ens_vars, usage_vars>>

StartsWith(s, p) == Len(s) >= Len(p) /\ SubSeq(s, 1, Len(p)) = p

\* What the local pipeline may return: a list whose first entry holds the
\* generated text, with or without the prompt echoed in front of it, or a
\* value of another shape.
LocalResults ==
  {[shape |-> "list", text |-> g, echo |-> b] : g \in GeneratedTexts, b \in BOOLEAN}
    \cup {[shape |-> "other", text |-> <<"raw">>, echo |-> FALSE]}

\* Lines 499-507: the generated text extracted from the pipeline's result.
ExtractGeneratedText(result, prompt) ==
  IF result.shape = "list"
  THEN LET generated_text == IF result.echo THEN prompt \o result.text ELSE result.text
       IN  IF StartsWith(generated_text, prompt)
           THEN SubSeq(generated_text, Len(prompt) + 1, Len(generated_text))
           ELSE generated_text
  ELSE result.text

\* Lines 486-496: the parameters of the local call are popped from hf_kwargs
\* and the local model is called with them.
LocalCallFrame(f) ==
  LET prompt == Val(PopValue(f.hf_kwargs, "prompt", None))
      max_new_tokens == PopValue(f.hf_kwargs, "max_new_tokens", Some(DefaultMaxTokens))
      temperature == PopValue(f.hf_kwargs, "temperature", Some(DefaultTemperature))
      rest == PopRest(PopRest(PopRest(f.hf_kwargs, "prompt"), "max_new_tokens"),
                      "temperature")
  IN  [f EXCEPT !.local_calls = @ + 1, !.attempt_calls.local = @ + 1, !.prompt = prompt, !.hf_kwargs = rest,
                !.last_local = Some([model |-> Val(hfm.local_model),
                                     prompt |-> prompt,
                                     max_new_tokens |-> max_new_tokens,
                                     temperature |-> temperature,
                                     kwargs |-> rest])]

\* Lines 486-507: the local model is called and returns `result`.
HFLocalGenerate(t, result) ==
  /\ hf[t].pc = "generate"
  /\ LET g == LocalCallFrame(hf[t])
     IN  hf' = [hf EXCEPT ![t] =
           [g EXCEPT !.pc = "count_prompt",
                     !.generated_text = ExtractGeneratedText(result, g.prompt)]]
  /\ UNCHANGED <<model_info, hfm, calls, ens_vars, usage_vars>>

\* Lines 486-496: the local model is called and raises.
HFLocalGenerateRaises(t, failure) ==
  /\ hf[t].pc = "generate"
  /\ LET g == LocalCallFrame(hf[t])
     IN  hf' = [hf EXCEPT ![t] =
           RaiseInTry(g, Exc(failure.type, failure.response, g.attempt, <<>>))]
  /\ UNCHANGED <<model_info, hfm, calls, ens_vars, usage_vars>>

\* Lines 521-531: timeout and prompt are popped from hf_kwargs and
\* client.text_generation is called.  The timeout popped is not passed on: the
\* call runs under the timeout the client was built with.
RemoteCallFrame(f) ==
  LET timeout == PopValue(f.hf_kwargs, "timeout", Some(DefaultTimeout))
      prompt == Val(PopValue(f.hf_kwargs, "prompt", None))
      rest == PopRest(PopRest(f.hf_kwargs, "timeout"), "prompt")
  IN  [f EXCEPT !.remote_calls = @ + 1, !.attempt_calls.remote = @ + 1, !.prompt = prompt, !.hf_kwargs = rest,
                !.last_remote = Some([prompt |-> prompt, model |-> f.model_id,
                                      kwargs |-> rest,
                                      popped_timeout |-> timeout,
                                      timeout_in_force |-> Val(hfm.client).timeout])]

\* Lines 521-534: the remote call returns the text `response`.
HFRemoteCall(t, response) ==
  /\ hf[t].pc = "remote"
  /\ hf' = [hf EXCEPT ![t] =
       [RemoteCallFrame(@) EXCEPT !.pc = "count_prompt", !.generated_text = response]]
  /\ UNCHANGED <<model_info, hfm, calls, ens_vars, usage_vars>>

\* Lines 521-531: the remote call raises.
HFRemoteCallRaises(t, failure) ==
  /\ hf[t].pc = "remote"
  /\ LET g == RemoteCallFrame(hf[t])
     IN  hf' = [hf EXCEPT ![t] =
           RaiseInTry(g, Exc(failure.type, failure.response, g.attempt, <<>>))]
  /\ UNCHANGED <<model_info, hfm, calls, ens_vars, usage_vars>>

\* A faulty variant of CountTokens: a tokenizer failure counts no token.
CountTokensNoFallback(tokenizer, text, found, loaded, encoded) ==
  LET cached == IF IsNone(tokenizer) /\ loaded
                THEN Some(NormalizeHuggingfaceModelName(model_info.name, found))
                ELSE tokenizer
  IN  IF IsNone(cached) \/ IsNone(encoded)
      THEN [count |-> 0, tokenizer |-> cached, failed |-> TRUE]
      ELSE [count |-> Val(encoded), tokenizer |-> cached, failed |-> FALSE]

\* _count_tokens(text), given the tokenizer cached on the instance and what
\* the environment does: whether the catalog lookup finds the name, whether the
\* tokenizer loads, and the number of tokens encode yields (None: it raises).
\* Yields the count and the tokenizer cached afterwards.
\* `failed` tells whether the except clause of line 581 was entered.
CountTokens(tokenizer, text, found, loaded, encoded) ==
  LET model_id == NormalizeHuggingfaceModelName(model_info.name, found)
      cached == IF IsNone(tokenizer) /\ loaded THEN Some(model_id) ELSE tokenizer
  IN  IF IsNone(cached) \/ IsNone(encoded)
      THEN [count |-> Len(text), tokenizer |-> cached, failed |-> TRUE]
      ELSE [count |-> Val(encoded), tokenizer |-> cached, failed |-> FALSE]

\* The token counts a tokenizer may give for a text.
Encodings(text) == {None, Some(Len(text)), Some(Len(text) + 1)}

\* A faulty variant of RoundDiv: the quotient is truncated.
RoundDivTruncating(n, d, tie_up) == n \div d
\* round(n / d) for n >= 0, d > 0: to the nearest integer.  The code rounds a
\* sum of binary floating-point products, so that a quotient half-way between
\* two integers goes up or down with the rounding errors of its operands:
\* tie_up is the way it goes for the operands at hand.
RoundDiv(n, d, tie_up) ==
  LET q == n \div d
      r == n % d
  IN  IF 2 * r < d THEN q
      ELSE IF 2 * r > d THEN q + 1
      ELSE IF tie_up THEN q + 1 ELSE q

\* A faulty variant of GetOrZero: an absent entry counts one token.
GetOrOne(entry) == IF IsNone(entry) THEN 1 ELSE Val(entry)
\* Lines 602-603: usage_data.get(key, 0), for an entry that is absent (None)
\* or holds a number.
GetOrZero(entry) == IF IsNone(entry) THEN 0 ELSE Val(entry)

\* Line 601: raw_output.get("usage", {}), for a usage entry that is absent
\* (None) or holds a mapping.
GetUsage(raw_output) ==
  IF IsNone(raw_output.usage)
  THEN [prompt_tokens |-> None, completion_tokens |-> None]
  ELSE Val(raw_output.usage)

\* calculate_usage; cost_usd is in millionths of a dollar (6 decimal places)
\* and the costs per thousand tokens are in millionths of a dollar.
CalculateUsage(raw_output, tie_up) ==
  LET usage_data == GetUsage(raw_output)
      prompt_tokens == GetOrZero(usage_data.prompt_tokens)
      completion_tokens == GetOrZero(usage_data.completion_tokens)
  IN  [total_tokens |-> prompt_tokens + completion_tokens,
       prompt_tokens |-> prompt_tokens,
       completion_tokens |-> completion_tokens,
       cost_usd |-> RoundDiv(prompt_tokens * model_info.cost.input_cost_per_thousand
                             + completion_tokens * model_info.cost.output_cost_per_thousand,
                             1000, tie_up)]

\* A faulty variant of RawOutput: the two token counts change places.
RawOutputSwapped(generated_text, model_id, prompt_tokens, completion_tokens) ==
  [generated_text |-> generated_text, model |-> model_id,
   usage |-> Some([prompt_tokens |-> Some(completion_tokens),
                   completion_tokens |-> Some(prompt_tokens)])]
\* Lines 510-517 and 537-544: the raw_output mapping forward builds.
RawOutput(generated_text, model_id, prompt_tokens, completion_tokens) ==
  [generated_text |-> generated_text, model |-> model_id,
   usage |-> Some([prompt_tokens |-> Some(prompt_tokens),
                   completion_tokens |-> Some(completion_tokens)])]

\* Lines 514 / 541: "prompt_tokens": self._count_tokens(prompt)
HFCountPromptTokens(t, found, loaded, encoded) ==
  /\ hf[t].pc = "count_prompt"
  /\ encoded \in Encodings(hf[t].prompt)
  /\ LET c == CountTokens(hfm.tokenizer, hf[t].prompt, found, loaded, encoded)
     IN  /\ hfm' = [hfm EXCEPT !.tokenizer = c.tokenizer]
         /\ hf' = [hf EXCEPT ![t] =
              [@ EXCEPT !.pc = "count_completion", !.prompt_tokens = c.count,
                        !.prompt_count = Some([text |-> hf[t].prompt, count |-> c.count]),
                        !.last_count = Some([text |-> hf[t].prompt, count |-> c.count,
                                             failed |-> c.failed])]]
  /\ UNCHANGED <<model_info, calls, ens_vars, usage_vars>>

\* Lines 515 / 542 to 549: the completion tokens are counted, raw_output and the
\* usage are built and the ChatResponse is returned; the retry controller
\* hands it to the caller.
HFReturn(t, found, loaded, encoded, tie_up) ==
  /\ hf[t].pc = "count_completion"
  /\ encoded \in Encodings(hf[t].generated_text)
  /\ LET f == hf[t]
         c == CountTokens(hfm.tokenizer, f.generated_text, found, loaded, encoded)
         raw_output == RawOutput(f.generated_text, f.model_id, f.prompt_tokens, c.count)
         response == [data |-> f.generated_text, raw_output |-> raw_output,
                      usage |-> CalculateUsage(raw_output, tie_up)]
     IN  /\ hfm' = [hfm EXCEPT !.tokenizer = c.tokenizer]
         /\ hf' = [hf EXCEPT ![t] =
              [f EXCEPT !.pc = "returned",
                        !.last_count = Some([text |-> f.generated_text, count |-> c.count,
                                             failed |-> c.failed]),
                        !.attempt_result = Some([at |-> f.attempt, response |-> response]),
                        !.result = Some(response)]]
  /\ UNCHANGED <<model_info, calls, ens_vars, usage_vars>>

\* The sleep between two attempts ends and the body is entered again.
HFBackoffDone(t) ==
  /\ hf[t].pc = "backoff"
  /\ hf' = [hf EXCEPT ![t] =
       [FreshLocals(@) EXCEPT !.pc = "enter", !.attempt = @ + 1]]
  /\ UNCHANGED <<model_info, hfm, calls, ens_vars, usage_vars>>

HFStep(t) ==
  \/ \E req \in Requests : HFCall(t, req)
  \/ HFPrepare(t)
  \/ \E found \in BOOLEAN : HFResolveModel(t, found)
  \/ HFCheckLocalModel(t)
  \/ \E outcome \in LoadOutcomes : HFLoadLocalModel(t, outcome)
  \/ \E result \in LocalResults : HFLocalGenerate(t, result)
  \/ \E failure \in LocalFailures : HFLocalGenerateRaises(t, failure)
  \/ \E response \in GeneratedTexts : HFRemoteCall(t, response)
  \/ \E failure \in RemoteFailures : HFRemoteCallRaises(t, failure)
  \/ \E found \in BOOLEAN, loaded \in BOOLEAN, n \in 0..3 :
       \/ HFCountPromptTokens(t, found, loaded, IF n = 3 THEN None ELSE Some(n))
       \/ \E tie_up \in BOOLEAN :
            HFReturn(t, found, loaded, IF n = 3 THEN None ELSE Some(n), tie_up)
  \/ HFBackoffDone(t)

\* The forward calls of the instance are made one after another, by one thread.
HFNext ==
  \/ \E found \in BOOLEAN : HFCreateClient(found)
  \/ HFInitDone
  \/ HFStep("t1")

\* calculate_usage's own bounds: the largest token count of a raw output and
\* the number of times calculate_usage is called on it.
MaxTokenCount == 4
MaxUsageCalls == 2

\* A token-count entry of raw_output["usage"]: absent, or a count.
TokenEntries == {None} \cup {Some(n) : n \in 0..MaxTokenCount}

\* The raw outputs calculate_usage is given: without a usage entry, or with
\* one that holds, or lacks, each of the two token counts.
RawOutputs ==
  {[generated_text |-> <<>>, model |-> DefaultModel, usage |-> None]}
    \cup {[generated_text |-> <<>>, model |-> DefaultModel,
           usage |-> Some([prompt_tokens |-> p, completion_tokens |-> c])] :
             p \in TokenEntries, c \in TokenEntries}

\* Cost schedules, in millionths of a dollar per thousand tokens: 0.001 and
\* 0.002 dollars, and 0.00015 and 0.0006 dollars.
CostSchedules ==
  {CostSchedule, [input_cost_per_thousand |-> 150, output_cost_per_thousand |-> 600]}

\* No call of calculate_usage on its own.
NoCalc == [raw_output |-> CHOOSE r \in RawOutputs : IsNone(r.usage),
           tie_up |-> FALSE, results |-> <<>>]

\* calculate_usage(raw_output) is called on the instance and returns.
UsageCalculate ==
  /\ hfm.state = "ready"
  /\ Len(calc.results) < MaxUsageCalls
  /\ calc' = [calc EXCEPT
        !.results = Append(@, CalculateUsage(calc.raw_output, calc.tie_up))]
  /\ UNCHANGED <<ens_vars, hf_vars>>

\* The operator is checked with no HuggingFaceModel instance constructed.
InitEns ==
  /\ lm_modules \in SeqsUpTo(AdapterIds, MaxAdapters)
  /\ ens = [c \in EnsCalls |-> EnsIdleFrame]
  /\ model_info = CHOOSE m \in ModelInfos : ~m.name.prefixed /\ ~ApiKeyMissing(m.api_key)
  /\ hfm = NewInstance
  /\ hf = [t \in Threads |-> HFIdleFrame]
  /\ calls = 0
  /\ calc = NoCalc

SpecEns == InitEns /\ [][EnsNext]_vars

\* The HuggingFaceModel instance is checked with the operator at rest, from
\* the moment __init__ is entered with its model_info.
InitHF ==
  /\ lm_modules = <<>>
  /\ ens = [c \in EnsCalls |-> EnsIdleFrame]
  /\ model_info \in ModelInfos
  /\ hfm = NewInstance
  /\ hf = [t \in Threads |-> HFIdleFrame]
  /\ calls = 0
  /\ calc = NoCalc

SpecHF == InitHF /\ [][HFNext]_vars

\* The request of the overlapping calls: one that takes the local path.
LocalRequest ==
  [prompt |-> Some(<<"hi", "there">>), max_tokens |-> Some(16), timeout |-> None,
   temperature |-> Some(7),
   provider_params |-> Dict({"use_local_model"}, [k \in Keys |-> Some(TRUE)])]

\* A step of forward(LocalRequest) on thread t.  The local pipeline returns a
\* list without the prompt echoed, and _count_tokens falls back to the word
\* count.
HFLocalStep(t) ==
  \/ HFCall(t, LocalRequest)
  \/ HFPrepare(t)
  \/ \E found \in BOOLEAN : HFResolveModel(t, found)
  \/ HFCheckLocalModel(t)
  \/ \E outcome \in LoadOutcomes : HFLoadLocalModel(t, outcome)
  \/ \E result \in {r \in LocalResults : r.shape = "list" /\ ~r.echo} :
       HFLocalGenerate(t, result)
  \/ \E failure \in LocalFailures : HFLocalGenerateRaises(t, failure)
  \/ HFCountPromptTokens(t, TRUE, TRUE, None)
  \/ HFReturn(t, TRUE, TRUE, None, FALSE)
  \/ HFBackoffDone(t)

\* Forward calls on the local path, made by two threads whose steps interleave.
HFConcNext == \E t \in Threads : HFLocalStep(t)

\* A freshly constructed instance: its client built, nothing loaded.
InitHFConc ==
  /\ lm_modules = <<>>
  /\ ens = [c \in EnsCalls |-> EnsIdleFrame]
  /\ model_info \in {m \in ModelInfos : ~ApiKeyMissing(m.api_key) /\ ~m.name.prefixed}
  /\ hfm = [NewInstance EXCEPT !.state = "ready",
                               !.client = Some(CreateClient(Val(model_info.api_key)))]
  /\ hf = [t \in Threads |-> HFIdleFrame]
  /\ calls = 0
  /\ calc = NoCalc

SpecHFConc == InitHFConc /\ [][HFConcNext]_vars

\* calculate_usage is checked on a constructed instance at rest, for every raw
\* output and cost schedule, and for either way its rounding may go.
InitUsage ==
  /\ lm_modules = <<>>
  /\ ens = [c \in EnsCalls |-> EnsIdleFrame]
  /\ model_info \in {[name |-> [prefixed |-> FALSE, id |-> "acme/model"],
                       api_key |-> Some("hf_key"), cost |-> k] : k \in CostSchedules}
  /\ hfm = [NewInstance EXCEPT !.state = "ready",
                               !.client = Some(CreateClient(Val(model_info.api_key)))]
  /\ hf = [t \in Threads |-> HFIdleFrame]
  /\ calls = 0
  /\ calc \in [raw_output : RawOutputs, tie_up : BOOLEAN, results : {<<>>}]

UsageNext == UsageCalculate

SpecUsage == InitUsage /\ [][UsageNext]_vars

(***************************************************************************)
(* Claims about EnsembleOperator, checked under SpecEns.                   *)
(***************************************************************************)

EnsLogged(c, i) == {k \in 1..Len(ens[c].lm_log) : ens[c].lm_log[k].pos = i}

\* C1: a successful forward returns a responses list of length N whose i-th
\* element is the value the i-th adapter of lm_modules returned in this call.
C1_ResponsesInAdapterOrder ==
  \A c \in EnsCalls :
    ens[c].pc = "done" =>
      LET out == Val(ens[c].output).responses
      IN  /\ Len(out) = Len(lm_modules)
          /\ Len(ens[c].lm_log) = Len(lm_modules)
          /\ \A i \in 1..Len(lm_modules) :
               \E k \in EnsLogged(c, i) :
                 /\ ens[c].lm_log[k].lm = lm_modules[i]
                 /\ ens[c].lm_log[k].out = Some(out[i])

\* A forward over three adapters has returned, and the adapters did not all
\* return the same text.
C1_Witness ==
  \E c \in EnsCalls :
    /\ ens[c].pc = "done"
    /\ Len(lm_modules) = 3
    /\ Val(ens[c].output).responses[1] # Val(ens[c].output).responses[2]
    /\ Val(ens[c].output).responses[2] = Val(ens[c].output).responses[3]

\* C2: the adapter invocations run concurrently: while the call of adapter i
\* is in flight and adapter i+1 has not been entered, the call of adapter
\* i+1 can be started.
C2_ConcurrentDispatch ==
  \A c \in EnsCalls :
    \A i \in 1..(Len(lm_modules) - 1) :
      (i \in ens[c].in_flight /\ (i + 1) \notin ens[c].in_flight
         /\ Len(ens[c].responses) < i + 1)
        => ENABLED EnsInvokeLM(c, i + 1)

\* C3: once the call of an adapter has raised, forward has failed with that
\* adapter's error and has returned no output.
C3_AnyAdapterErrorFailsForward ==
  \A c \in EnsCalls :
    \A k \in 1..Len(ens[c].lm_log) :
      IsNone(ens[c].lm_log[k].out) =>
        /\ ens[c].pc = "failed"
        /\ IsNone(ens[c].output)
        /\ ens[c].raised = Some([pos |-> ens[c].lm_log[k].pos,
                                 lm |-> ens[c].lm_log[k].lm])

\* The second adapter raised after the first had returned a text.
C3_Witness ==
  \E c \in EnsCalls :
    /\ ens[c].pc = "failed"
    /\ Len(ens[c].responses) = 1
    /\ Len(ens[c].lm_log) = 2
    /\ IsNone(ens[c].lm_log[2].out)

(***************************************************************************)
(* Claims about HuggingFaceModel.forward, checked under SpecHF.            *)
(***************************************************************************)

\* C4: forward makes at most 3 attempts; a call that returns hands the caller
\* the ChatResponse of its last attempt (the third, after two failures); a
\* call whose third attempt fails makes no fourth and raises that attempt's
\* exception itself to the caller.
C4_AtMostThreeAttempts ==
  \A t \in Threads :
    LET f == hf[t]
    IN  /\ f.attempt <= 3
        /\ f.body_runs <= 3
        /\ f.pc = "returned" =>
             /\ Val(f.attempt_result).at = f.attempt
             /\ f.result = Some(Val(f.attempt_result).response)
        /\ f.pc = "raised" =>
             /\ f.attempt = 3
             /\ f.body_runs = 3
             /\ f.attempt_exc.at = 3
             /\ f.caller_exc = f.attempt_exc

\* A call has returned from its third attempt, after two attempts that failed.
C4_Witness ==
  \E t \in Threads :
    /\ hf[t].pc = "returned"
    /\ hf[t].attempt = 3
    /\ Len(hf[t].waits) = 2

\* A request with an empty or missing prompt, or a max_tokens that is not positive.
InvalidInput(req) ==
  \/ IsNone(req.prompt)
  \/ Val(req.prompt) = <<>>
  \/ (~IsNone(req.max_tokens) /\ Val(req.max_tokens) <= 0)

\* C5: a call with an empty prompt or a non-positive max_tokens is not
\* retried: the body of forward runs once and no backoff wait happens.
C5_InvalidInputNotRetried ==
  \A t \in Threads :
    LET f == hf[t]
    IN  (f.pc # "idle" /\ InvalidInput(f.request)) =>
          /\ f.body_runs <= 1
          /\ f.waits = <<>>
          /\ f.pc = "raised" => f.body_runs = 1

\* C6: with an empty or missing prompt, no attempt of the call makes a remote
\* call, a local model call, a local model load or a catalog lookup, and every
\* attempt, and the call, fails with InvalidPromptError.
C6_EmptyPromptNoBackendCall ==
  \A t \in Threads :
    LET f == hf[t]
    IN  (f.pc # "idle" /\ (IsNone(f.request.prompt) \/ Val(f.request.prompt) = <<>>)) =>
          /\ f.remote_calls = 0
          /\ f.local_calls = 0
          /\ f.loads = 0
          /\ f.lookups = 0
          /\ f.pc \in {"enter", "backoff", "raised"}
          /\ f.pc \in {"backoff", "raised"} => f.attempt_exc.type = "InvalidPromptError"
          /\ f.pc = "raised" => f.caller_exc.type = "InvalidPromptError"

\* A call with an empty (not missing) prompt has failed.
C6_Witness ==
  \E t \in Threads :
    /\ hf[t].pc = "raised"
    /\ hf[t].request.prompt = Some(<<>>)
    /\ hf[t].caller_exc.type = "InvalidPromptError"

\* C7: within one call the prompt validation, the parameter normalization and
\* the provider_params merge are executed once, not once per attempt.
C7_RetryWrapsInvocationOnly ==
  \A t \in Threads :
    /\ hf[t].prompt_checks <= 1
    /\ hf[t].normalizations <= 1
    /\ hf[t].merges <= 1

\* C8 as stated: an exception raised in the try block leaves the attempt as
\* itself if it is an HTTP error with a status in 500..599, and as a
\* ProviderAPIError caused by it otherwise.
C8_OnlyServerErrorsUnwrapped ==
  \A t \in Threads :
    LET f == hf[t]
    IN  f.try_exc # NoExc =>
          IF IsHTTP5xx(f.try_exc)
          THEN f.attempt_exc = f.try_exc
          ELSE /\ f.attempt_exc.type = "ProviderAPIError"
               /\ f.attempt_exc.cause = <<f.try_exc>>

\* C8 amended: an exception raised in the try block that is not an HTTPError
\* leaves the attempt as a ProviderAPIError caused by it; an HTTPError that
\* carries a response leaves the attempt as itself whatever its status; no
\* HTTPError leaves the attempt as a ProviderAPIError.
C8_HTTPErrorsUnwrapped ==
  \A t \in Threads :
    LET f == hf[t]
    IN  f.try_exc # NoExc =>
          /\ f.try_exc.type # "HTTPError" =>
               /\ f.attempt_exc.type = "ProviderAPIError"
               /\ f.attempt_exc.cause = <<f.try_exc>>
          /\ (f.try_exc.type = "HTTPError" /\ ~IsNone(f.try_exc.response)) =>
               f.attempt_exc = f.try_exc
          /\ f.try_exc.type = "HTTPError" => f.attempt_exc.type # "ProviderAPIError"

\* The remote call has raised an HTTP 404 error, which left the attempt as itself.
C8_Witness ==
  \E t \in Threads :
    /\ hf[t].try_exc.type = "HTTPError"
    /\ hf[t].try_exc.response = Some(404)
    /\ hf[t].attempt_exc = hf[t].try_exc

\* C9 as stated: when every attempt of a call failed with a network failure or
\* an HTTP 5xx error, the call was attempted 3 times and the caller receives
\* the last attempt's backend exception itself.
C9_TransientSurfacedUnmodified ==
  \A t \in Threads :
    LET f == hf[t]
    IN  (f.pc = "raised" /\ f.transient_attempts = f.attempt) =>
          /\ f.body_runs = 3
          /\ f.caller_exc = f.try_exc

\* C9 amended: when every attempt of a call failed with a network failure or an
\* HTTP 5xx error, the call was attempted 3 times; the caller receives the
\* last attempt's HTTPError itself if that attempt failed with an HTTP 5xx
\* error, and a ProviderAPIError caused by the last attempt's exception if it
\* failed with a network failure.
C9_TransientRetriedThenSurfaced ==
  \A t \in Threads :
    LET f == hf[t]
    IN  (f.pc = "raised" /\ f.transient_attempts = f.attempt) =>
          /\ f.body_runs = 3
          /\ f.remote_calls = 3
          /\ f.try_exc.at = 3
          /\ IsHTTP5xx(f.try_exc) => f.caller_exc = f.try_exc
          /\ IsNetworkFailure(f.try_exc) =>
               /\ f.caller_exc.type = "ProviderAPIError"
               /\ f.caller_exc.cause = <<f.try_exc>>

\* Three attempts failed with a transient error, the last with a network failure.
C9_Witness ==
  \E t \in Threads :
    /\ hf[t].pc = "raised"
    /\ hf[t].transient_attempts = 3
    /\ IsNetworkFailure(hf[t].try_exc)

\* C10: every remote call is issued under a finite timeout: the request's
\* timeout when it is set, and 30 when it is unset.
C10_RemoteCallUnderTimeout ==
  \A t \in Threads :
    LET f == hf[t]
    IN  ~IsNone(f.last_remote) =>
          Val(f.last_remote).timeout_in_force =
            (IF IsNone(f.request.timeout) THEN Some(30) ELSE f.request.timeout)

\* C11: in the HuggingFaceChatParameters of an attempt, max_tokens is 512 when
\* the request has none and the requested value when that is positive, and it
\* is never <= 0; a requested max_tokens of 0 or less fails the attempt with a
\* ValidationError and no parameters are built.
C11_MaxTokensNormalized ==
  \A t \in Threads :
    LET f == hf[t]
        requested == f.request.max_tokens
    IN  /\ ~IsNone(f.hf_parameters) =>
             /\ Val(Val(f.hf_parameters).max_tokens) > 0
             /\ IsNone(requested) => Val(f.hf_parameters).max_tokens = Some(512)
             /\ ~IsNone(requested) => Val(f.hf_parameters).max_tokens = requested
        /\ (f.normalizations > 0 /\ ~IsNone(requested) /\ Val(requested) <= 0) =>
             /\ IsNone(f.hf_parameters)
             /\ f.pc \in {"backoff", "enter", "raised"}
             /\ f.pc \in {"backoff", "raised"} => f.attempt_exc.type = "ValidationError"

\* A request without max_tokens was normalized to 512.
C11_Witness ==
  \E t \in Threads :
    /\ hf[t].pc = "resolve"
    /\ IsNone(hf[t].request.max_tokens)
    /\ Val(hf[t].hf_parameters).max_tokens = Some(512)

\* C12: the max_new_tokens passed to the remote or local backend is a positive
\* integer, whatever provider_params holds.
C12_BackendTokenLimitPositive ==
  \A t \in Threads :
    LET f == hf[t]
    IN  /\ ~IsNone(f.last_remote) =>
             /\ "max_new_tokens" \in Val(f.last_remote).kwargs.keys
             /\ Val(Val(f.last_remote).kwargs.val["max_new_tokens"]) > 0
        /\ ~IsNone(f.last_local) => Val(Val(f.last_local).max_new_tokens) > 0

\* C13: after the merge, a key that provider_params holds with a value holds
\* exactly that value; a key that provider_params holds unset, or does not hold,
\* is as to_huggingface_kwargs left it (its value, or absent).
C13_OverrideMerge ==
  \A t \in Threads :
    LET f == hf[t]
        pp == f.request.provider_params
    IN  f.pc = "resolve" =>
          LET base == ToHuggingfaceKwargs(Val(f.hf_parameters))
          IN  \A k \in Keys :
                IF k \in pp.keys /\ ~IsNone(pp.val[k])
                THEN k \in f.hf_kwargs.keys /\ f.hf_kwargs.val[k] = pp.val[k]
                ELSE /\ k \in f.hf_kwargs.keys <=> k \in base.keys
                     /\ f.hf_kwargs.val[k] = base.val[k]

\* provider_params held max_new_tokens unset, and the merged parameters kept
\* the normalizer's 16 and left top_k absent.
C13_Witness ==
  \E t \in Threads :
    /\ hf[t].pc = "resolve"
    /\ "max_new_tokens" \in hf[t].request.provider_params.keys
    /\ IsNone(hf[t].request.provider_params.val["max_new_tokens"])
    /\ hf[t].hf_kwargs.val["max_new_tokens"] = Some(16)
    /\ "top_k" \notin hf[t].hf_kwargs.keys

\* C14: once _load_local_model has returned successfully (the instance holds a
\* local model), no later step of any attempt or call on the instance calls
\* _load_local_model, and the cached model stays as it is.
C14_LocalModelLoadedOnce ==
  [][~IsNone(hfm.local_model) =>
       /\ hfm'.local_model = hfm.local_model
       /\ \A t \in Threads : /\ hf'[t].pc # "load"
                             /\ hf'[t].loads <= hf[t].loads]_vars

\* The second attempt of a call runs the local pipeline again, after a failed
\* generation, with the model its first attempt loaded.
C14_Witness ==
  \E t \in Threads :
    /\ hf[t].attempt = 2
    /\ hf[t].loads = 1
    /\ hf[t].local_calls = 2
    /\ ~IsNone(hfm.local_model)

\* C15: _count_tokens returns, it never raises: the prompt's count and the
\* completion's count are always delivered to raw_output.  The count is a
\* non-negative integer, for the empty text too, and when the tokenizer could
\* not be loaded or failed to encode it is the number of words of the text.
C15_CountTokensNeverRaises ==
  \A t \in Threads :
    LET f == hf[t]
    IN  /\ f.pc = "count_completion" =>
             /\ ~IsNone(f.last_count)
             /\ Val(f.last_count).text = f.prompt
             /\ f.prompt_tokens = Val(f.last_count).count
        /\ f.pc = "returned" =>
             /\ ~IsNone(f.last_count)
             /\ Val(f.last_count).text = f.generated_text
             /\ Val(f.result).raw_output.usage
                  = Some([prompt_tokens |-> Some(f.prompt_tokens),
                          completion_tokens |-> Some(Val(f.last_count).count)])
        /\ ~IsNone(f.last_count) =>
             /\ Val(f.last_count).count \in Nat
             /\ Val(f.last_count).failed =>
                  Val(f.last_count).count = Len(Val(f.last_count).text)

\* The tokens of a two-word prompt were counted by the fallback while no
\* tokenizer could be loaded, and the count is 2.
C15_Witness ==
  \E t \in Threads :
    /\ hf[t].pc = "count_completion"
    /\ IsNone(hfm.tokenizer)
    /\ Val(hf[t].last_count).failed
    /\ Val(hf[t].last_count).count = 2

\* What _normalize_huggingface_model_name is to return for model_info.name.
ResolvedAs(lookup) ==
  IF lookup.found
  THEN /\ ~lookup.model_id.prefixed
       /\ lookup.model_id.id = model_info.name.id
  ELSE lookup.model_id = DefaultModel

\* C16: the model name forward and create_client resolve is model_info.name
\* without its "huggingface:" prefix when the catalog lookup succeeds and the
\* fixed default identifier when it fails; the attempt goes on with that name
\* and create_client returns its client, whether the lookup succeeded or not.
C16_ModelNameResolutionNeverFails ==
  /\ \A t \in Threads :
       LET f == hf[t]
       IN  /\ ~IsNone(f.last_lookup) =>
                /\ ResolvedAs(Val(f.last_lookup))
                /\ f.model_id = Val(f.last_lookup).model_id
           /\ f.pc \in {"check_local", "remote"} =>
                /\ ~IsNone(f.last_lookup)
                /\ f.lookups = f.merges
                /\ f.attempt_exc.at # f.attempt
           /\ f.pc \in {"backoff", "raised", "returned"} => f.lookups = f.merges
  /\ ~IsNone(hfm.create_frame) =>
       /\ ResolvedAs(Val(hfm.create_frame))
       /\ hfm.state = "created"
       /\ ~IsNone(hfm.client)
       /\ hfm.create_exc = NoExc

\* The catalog lookup of forward failed for a prefixed name, and the attempt
\* goes on to the remote call with the default model.
C16_Witness ==
  \E t \in Threads :
    /\ hf[t].pc = "remote"
    /\ model_info.name.prefixed
    /\ ~Val(hf[t].last_lookup).found
    /\ hf[t].model_id = DefaultModel

\* C17: create_client raises ModelProviderError and builds no client exactly
\* when get_api_key() yields no key (None or the empty string); with a key the
\* client holds it; and no attempt of forward, and no forward call, ends in a
\* ModelProviderError.
C17_CredentialCheckedAtCreation ==
  /\ hfm.state = "failed" =>
       /\ IsNone(model_info.api_key) \/ model_info.api_key = Some("")
       /\ IsNone(hfm.client)
       /\ hfm.create_exc.type = "ModelProviderError"
  /\ hfm.state \in {"created", "ready"} =>
       /\ ~IsNone(model_info.api_key) /\ model_info.api_key # Some("")
       /\ hfm.client = Some([token |-> Val(model_info.api_key), timeout |-> None])
       /\ hfm.create_exc = NoExc
  /\ hfm.state = "new" => IsNone(hfm.client) /\ hfm.create_exc = NoExc
  /\ \A t \in Threads :
       /\ hf[t].pc # "idle" => hfm.state = "ready"
       /\ hf[t].try_exc.type # "ModelProviderError"
       /\ hf[t].attempt_exc.type # "ModelProviderError"
       /\ hf[t].caller_exc.type # "ModelProviderError"

\* create_client has failed for an empty key.
C17_Witness ==
  /\ hfm.state = "failed"
  /\ model_info.api_key = Some("")
  /\ hfm.create_exc.type = "ModelProviderError"
  /\ IsNone(hfm.client)

(***************************************************************************)
(* Claims about calculate_usage, checked under SpecUsage.                  *)
(***************************************************************************)

\* The token count calculate_usage is to read for an entry of the usage
\* mapping of calc.raw_output: the entry's value, 0 when the entry or the
\* usage mapping is absent.
TokensRead(key) ==
  IF IsNone(calc.raw_output.usage) THEN 0
  ELSE LET entry == Val(calc.raw_output.usage)[key]
       IN  IF IsNone(entry) THEN 0 ELSE Val(entry)

\* C18: every call of calculate_usage returns; its prompt_tokens and
\* completion_tokens are the values under raw_output's usage entry, 0 for an
\* absent one (and when the usage entry is absent), total_tokens is their sum
\* (3 and 4 give 7), and the same raw output yields the same counts each time.
C18_UsageCountsFromRawOutput ==
  /\ \A i \in 1..Len(calc.results) :
       LET u == calc.results[i]
       IN  /\ u.prompt_tokens = TokensRead("prompt_tokens")
           /\ u.completion_tokens = TokensRead("completion_tokens")
           /\ u.total_tokens = u.prompt_tokens + u.completion_tokens
           /\ (u.prompt_tokens = 3 /\ u.completion_tokens = 4) => u.total_tokens = 7
           /\ u.prompt_tokens = calc.results[1].prompt_tokens
           /\ u.completion_tokens = calc.results[1].completion_tokens
           /\ u.total_tokens = calc.results[1].total_tokens
  /\ ENABLED UsageCalculate <=> Len(calc.results) < MaxUsageCalls

\* calculate_usage was called twice on a raw output whose usage entry holds 4
\* completion tokens and no prompt tokens, and counted 0, 4 and 4 in total.
C18_Witness ==
  /\ Len(calc.results) = 2
  /\ ~IsNone(calc.raw_output.usage)
  /\ IsNone(Val(calc.raw_output.usage).prompt_tokens)
  /\ Val(calc.raw_output.usage).completion_tokens = Some(4)
  /\ calc.results[2].prompt_tokens = 0
  /\ calc.results[2].total_tokens = 4

\* C19: cost_usd, in millionths of a dollar, is an integer nearest to
\* (prompt_tokens * input_cost_per_thousand
\*   + completion_tokens * output_cost_per_thousand) / 1000 with the costs in
\* millionths of a dollar, the same at every call for the same raw output and
\* cost schedule; 3 and 4 tokens at 0.001 and 0.002 dollars cost 0.000011.
C19_CostRoundedToSixDecimals ==
  \A i \in 1..Len(calc.results) :
    LET u == calc.results[i]
        exact == u.prompt_tokens * model_info.cost.input_cost_per_thousand
                 + u.completion_tokens * model_info.cost.output_cost_per_thousand
        error == 1000 * u.cost_usd - exact
    IN  /\ u.cost_usd \in Nat
        /\ 2 * error <= 1000 /\ 2 * error >= -1000
        /\ u.cost_usd = calc.results[1].cost_usd
        /\ (u.prompt_tokens = 3 /\ u.completion_tokens = 4
              /\ model_info.cost = CostSchedule) => u.cost_usd = 11

\* 3 prompt tokens and 4 completion tokens at 0.00015 and 0.0006 dollars per
\* thousand cost 0.00000285 dollars, returned as 0.000003 by two calls.
C19_Witness ==
  /\ Len(calc.results) = 2
  /\ calc.results[2].prompt_tokens = 3
  /\ calc.results[2].completion_tokens = 4
  /\ model_info.cost.input_cost_per_thousand = 150
  /\ calc.results[2].cost_usd = 3

(***************************************************************************)
(* Further claims about EnsembleOperator, checked under SpecEns.           *)
(***************************************************************************)

\* C20: in a forward call of the operator the prompt is rendered exactly once,
\* from the call's inputs, and every adapter call of that forward call was
\* given that rendered prompt.
C20_PromptRenderedOnce ==
  \A c \in EnsCalls :
    /\ ens[c].pc = "idle" => ens[c].renders = 0 /\ ens[c].lm_log = <<>>
    /\ ens[c].pc # "idle" =>
         /\ ens[c].renders = 1
         /\ ens[c].rendered_prompt = Some(RenderPrompt(ens[c].inputs))
         /\ \A k \in 1..Len(ens[c].lm_log) :
              ens[c].lm_log[k].prompt = Val(ens[c].rendered_prompt)

\* A forward call over three adapters has returned; each adapter was given
\* the prompt rendered from query q2.
C20_Witness ==
  \E c \in EnsCalls :
    /\ ens[c].pc = "done"
    /\ Len(ens[c].lm_log) = 3
    /\ ens[c].renders = 1
    /\ \A k \in 1..3 : ens[c].lm_log[k].prompt = <<"rendered", "q2">>

\* C21: forward calls of one operator that overlap do not interfere: no step of
\* a forward call changes lm_modules, and a call that has returned holds, in
\* adapter order, what the adapters returned in that call to the prompt
\* rendered from that call's own inputs.
C21_ConcurrentForwardsIndependent ==
  [][/\ lm_modules' = lm_modules
     /\ \A c \in EnsCalls :
          ens'[c].pc = "done" =>
            LET f == ens'[c]
                out == Val(f.output).responses
            IN  /\ Len(out) = Len(lm_modules)
                /\ Len(f.lm_log) = Len(lm_modules)
                /\ \A i \in 1..Len(lm_modules) :
                     /\ f.lm_log[i].pos = i
                     /\ f.lm_log[i].lm = lm_modules[i]
                     /\ f.lm_log[i].prompt = RenderPrompt(f.inputs)
                     /\ f.lm_log[i].out = Some(out[i])]_vars

\* Two forward calls with different inputs are both inside an adapter call,
\* each after a first adapter has answered it, and the answers differ.
C21_Witness ==
  /\ ens["c1"].pc = "in_call" /\ ens["c2"].pc = "in_call"
  /\ ens["c1"].inputs # ens["c2"].inputs
  /\ Len(ens["c1"].responses) = 1 /\ Len(ens["c2"].responses) = 1
  /\ ens["c1"].responses # ens["c2"].responses

(***************************************************************************)
(* Further claims about HuggingFaceModel, checked under SpecHF.            *)
(***************************************************************************)

\* The prompt the backend of the call's path was last called with.
PromptSent(f) ==
  IF f.use_local THEN Val(f.last_local).prompt ELSE Val(f.last_remote).prompt

\* C22: a forward call that has returned holds a ChatResponse whose data is
\* raw_output's generated_text, whose raw_output usage holds the count
\* _count_tokens gave for the prompt sent to the backend and the count it gave
\* for the generated text, and whose usage statistics hold these two counts
\* and their sum; on the remote and on the local path.
C22_ResponseCarriesCountedUsage ==
  \A t \in Threads :
    hf[t].pc = "returned" =>
      LET f == hf[t]
          r == Val(f.result)
          usage == Val(r.raw_output.usage)
      IN  /\ r.data = r.raw_output.generated_text
          /\ Val(f.prompt_count).text = PromptSent(f)
          /\ usage.prompt_tokens = Some(Val(f.prompt_count).count)
          /\ Val(f.last_count).text = r.raw_output.generated_text
          /\ usage.completion_tokens = Some(Val(f.last_count).count)
          /\ r.usage.prompt_tokens = Val(f.prompt_count).count
          /\ r.usage.completion_tokens = Val(f.last_count).count
          /\ r.usage.total_tokens = Val(f.prompt_count).count + Val(f.last_count).count

\* A call on the local path has returned an empty text, with 2 tokens counted
\* for its prompt and 1 for the text.
C22_Witness ==
  \E t \in Threads :
    /\ hf[t].pc = "returned"
    /\ hf[t].use_local
    /\ Val(hf[t].result).data = <<>>
    /\ Val(hf[t].result).usage.prompt_tokens = 2
    /\ Val(hf[t].result).usage.completion_tokens = 1

\* Whether the merged parameters of a request set use_local_model.
UseLocalRequested(req) ==
  /\ "use_local_model" \in req.provider_params.keys
  /\ req.provider_params.val["use_local_model"] = Some(TRUE)

\* C23: an attempt of forward makes at most one inference call.  When the
\* merged parameters set use_local_model, no attempt of the call calls the
\* remote client, and an attempt that has its generated text has called the
\* local model once; otherwise no attempt loads or calls a local model, and an
\* attempt that has its generated text has called the remote client once.  A
\* call that returns from its first attempt has made exactly one inference call.
C23_OneInferenceCallPerAttempt ==
  \A t \in Threads :
    LET f == hf[t]
        n == f.attempt_calls
        generated == f.pc \in {"count_prompt", "count_completion", "returned"}
    IN  /\ n.local + n.remote <= 1
        /\ UseLocalRequested(f.request) =>
             /\ n.remote = 0 /\ f.remote_calls = 0
             /\ generated => n.local = 1
        /\ ~UseLocalRequested(f.request) =>
             /\ n.local = 0 /\ n.loads = 0
             /\ f.local_calls = 0 /\ f.loads = 0
             /\ generated => n.remote = 1
        /\ (f.pc = "returned" /\ f.attempt = 1) => f.local_calls + f.remote_calls = 1

\* The third attempt of a call on the local path has returned after one call
\* of the local model, the third such call of the forward call.
C23_Witness ==
  \E t \in Threads :
    /\ hf[t].pc = "returned"
    /\ hf[t].attempt = 3
    /\ UseLocalRequested(hf[t].request)
    /\ hf[t].attempt_calls = [local |-> 1, remote |-> 0, loads |-> 0]
    /\ hf[t].local_calls = 3

(***************************************************************************)
(* A claim about overlapping forward calls, checked under SpecHFConc.      *)
(***************************************************************************)

\* C24: on one instance _load_local_model returns a model at most once,
\* however the steps of two forward calls on the local path interleave, and
\* every generation runs on that one model.
C24_LocalModelCreatedOnceConcurrently ==
  /\ hfm.model_loads <= 1
  /\ \A t, u \in Threads :
       (~IsNone(hf[t].last_local) /\ ~IsNone(hf[u].last_local)) =>
          Val(hf[t].last_local).model = Val(hf[u].last_local).model

\* C25: on the local path the "model" entry of the raw_output a call returns
\* is the identifier the local model that generated the text was loaded with.
C25_ReportedModelIsLoadedModel ==
  \A t \in Threads :
    (hf[t].pc = "returned" /\ hf[t].use_local) =>
       Val(hf[t].result).raw_output.model = Val(hf[t].last_local).model.model_id

\* C26: an HTTPError raised by the backend call leaves its attempt as that
\* same HTTPError, with or without a response object.
C26_HTTPErrorLeavesAttemptAsItself ==
  \A t \in Threads :
    (hf[t].try_exc.type = "HTTPError" /\ hf[t].attempt_exc.at = hf[t].try_exc.at) =>
       hf[t].attempt_exc = hf[t].try_exc

\* C27: no step of a forward call whose request fails input validation (an
\* empty prompt, or a max_tokens of 0 or less) changes the instance: its
\* tokenizer and its local model stay as they were before the call, on every
\* attempt, and the call makes no catalog lookup, no model load and no
\* backend call.
C27_InvalidInputLeavesInstanceUnchanged ==
  [][\A t \in Threads :
       (InvalidInput(hf'[t].request) /\ hf'[t].pc # "idle") =>
          /\ hfm' = hfm
          /\ hf'[t].lookups = 0
          /\ hf'[t].loads = 0
          /\ hf'[t].local_calls = 0 /\ hf'[t].remote_calls = 0
          /\ IsNone(hf'[t].last_count)]_vars

\* A call with max_tokens 0 has failed after three attempts on an instance
\* that holds the tokenizer and the local model an earlier call loaded.
C27_Witness ==
  \E t \in Threads :
    /\ hf[t].pc = "raised"
    /\ hf[t].request.max_tokens = Some(0)
    /\ hf[t].body_runs = 3
    /\ ~IsNone(hfm.tokenizer)
    /\ ~IsNone(hfm.local_model)

====
